---- MODULE Spec2Model ----
(***************************************************************************)
(* Model of the SDFS frontend: DataHandler (data_handler.js), the          *)
(* orchestration flows of main.js and the owned map collections of         *)
(* MapVisualization (map_visualization.js).                                *)
(*                                                                         *)
(* JavaScript runs each handler to completion between two awaits, so one   *)
(* action is one trigger or one network completion together with all the   *)
(* synchronous code that follows it up to the next await.                  *)
(***************************************************************************)
EXTENDS Integers, Sequences, FiniteSets, TLC

\* Number of triggers (initial load included) fired during one page life.
MaxTriggers == 2

Null == "null"

Flows == 1..MaxTriggers

(***************************************************************************)
(* Backend payloads.  A snapshot is what GET /api/data returns in          *)
(* response.data.data; the table lists the payloads the backend may        *)
(* answer with: a full one ("S1"), one with no AIS record and a region of  *)
(* two boundary points ("S2"), one holding a record whose latitude is      *)
(* missing ("S3"), one with no ADS-B record ("S4").  A region is modelled  *)
(* by its number of boundary points, a region without a coordinates        *)
(* property by a record without that field.                                *)
(***************************************************************************)
Rec(lat, lon) == [latitude |-> lat, longitude |-> lon]
RecNoLat(lon) == [longitude |-> lon]
NoBoundary == [data_type |-> "ais"]

SnapshotTable ==
    ("S1" :> [ais_data |-> <<Rec(1, 1), Rec(2, 3)>>,
              adsb_data |-> <<Rec(4, 2)>>,
              coverage_layers |-> <<[coordinates |-> 3]>>]) @@
    ("S2" :> [ais_data |-> <<>>,
              adsb_data |-> <<Rec(5, 5)>>,
              coverage_layers |-> <<[coordinates |-> 2], [coordinates |-> 4],
                                    NoBoundary>>]) @@
    ("S3" :> [ais_data |-> <<Rec(1, 2), RecNoLat(3)>>,
              adsb_data |-> <<Rec(3, 3)>>,
              coverage_layers |-> <<[coordinates |-> 2], [coordinates |-> 3]>>]) @@
    ("S4" :> [ais_data |-> <<Rec(2, 2)>>,
              adsb_data |-> <<>>,
              coverage_layers |-> <<>>])

SnapshotIds == DOMAIN SnapshotTable

\* Outcomes of GET /api/data: a success:true payload, a success:false
\* payload, the 30 s axios timeout, a connection error.
FailKinds == {"rejected", "timeout", "neterror"}
DataResponses == {[kind |-> "ok", snap |-> s] : s \in SnapshotIds}
                 \cup {[kind |-> k, snap |-> Null] : k \in FailKinds}

\* Outcomes of the POST requests (rescan, cache clear).
PostResponses == {"ok", "rejected", "neterror"}

\* How GET /api/health can end: a 2xx answer whose payload says 'healthy',
\* says something else ("degraded") or carries no payload at all
\* ("nobody": response.data is null), a non-2xx answer ("rejected"), the
\* 5000 ms timeout, or no connection.
HealthAnswers == {"healthy", "degraded", "nobody"}
HealthProbes == HealthAnswers \cup FailKinds

Categories == {"ais", "adsb", "coverage"}

VARIABLES
    statusDom,        \* the document holds #system-status / #processing-status
    page,             \* "loading" until DOMContentLoaded, then "ready"
    processedData,    \* DataHandler.processedData (a snapshot id or Null)
    lastUpdate,       \* DataHandler.lastUpdate
    isProcessing,     \* DataHandler.isProcessing
    flows,            \* one record per invocation of an async handler
    last,             \* the record of the invocation that settled last
    reloadTimers,     \* pending setTimeout(() => location.reload(), 2000)
    filters,          \* checked state of filter-ais / filter-adsb / filter-coverage
    aisMarkers,       \* MapVisualization.aisMarkers     (key index -> entity)
    adsbMarkers,      \* MapVisualization.adsbMarkers
    coveragePolygons, \* MapVisualization.coveragePolygons
    markersLayer,     \* entities attached to the markers layer group
    coverageLayers,   \* entities attached to the coverage layer group
    mapGen,           \* number of updateMapData calls of this page life
    mapSnap,          \* snapshot passed to the latest updateMapData, or Null
    camera,           \* centre and zoom level of the Leaflet map
    currentZoom,      \* MapVisualization.currentZoom
    memo,             \* what was attached when a filter was last switched off
    now,              \* the browser's clock, in ticks since the page origin
    detail,           \* what the detail view (#data-point-modal) shows
    marker            \* the marker create*Marker built last

dhVars == <<processedData, lastUpdate, isProcessing>>
mapVars == <<aisMarkers, adsbMarkers, coveragePolygons, markersLayer,
             coverageLayers, mapGen, mapSnap, camera, currentZoom, memo>>
vars == <<statusDom, page, processedData, lastUpdate, isProcessing, flows,
          last, reloadTimers, filters, aisMarkers, adsbMarkers, coveragePolygons,
          markersLayer, coverageLayers, mapGen, mapSnap, camera, currentZoom,
          memo, now, detail, marker>>
clsVars == <<now, detail, marker>>

(***************************************************************************)
(* Flow records, one per invocation of an async handler.                   *)
(*   kind    the handler: "check" (checkBackendAndLoadData), "update",     *)
(*           "decode" (runFullAISDecode), "api" (a direct loadData call)   *)
(*   pc      the await it is suspended at, "done" once it returned         *)
(*   r1, r2  results of its first and second loadData call                 *)
(*   snap    the snapshot its latest successful loadData stored            *)
(*   rescan, clear   outcome of its rescan / cache-clear request           *)
(*   nLoad, nFetch, nClear   loadData calls, GET /api/data requests and    *)
(*           cache-clear requests it issued;  timer: reload timers armed   *)
(*   warned  it showed the warning about a category without records        *)
(* A slot whose invocation returned holds Over; the record it ended with   *)
(* is kept in last until the next invocation returns.                      *)
(***************************************************************************)
NoFlow == [kind |-> "none", pc |-> "idle", r1 |-> "none", r2 |-> "none",
           snap |-> Null, rescan |-> "none", clear |-> "none",
           nLoad |-> 0, nFetch |-> 0, nClear |-> 0, timer |-> 0,
           probe |-> "none", health |-> "none", warned |-> FALSE]

Over == [NoFlow EXCEPT !.kind = "over", !.pc = "done"]

DataPcs == {"data1", "data2"}

Started == {f \in Flows : flows[f].kind # "none"}
FreeSlot == Cardinality(Started) + 1
CanTrigger == page = "ready" /\ FreeSlot \in Flows

\* GET /api/data requests that are outstanding.
Outstanding == {f \in Flows : flows[f].pc \in DataPcs}

(***************************************************************************)
(* DataHandler.loadData, data_handler.js:24-66.                            *)
(***************************************************************************)

\* updateSystemStatus (main.js:646) dereferences the two status elements:
\* it throws a TypeError when the document does not hold them.
NotifierThrows == ~statusDom

\* The synchronous prefix of loadData (lines 25-36): the single-flight guard,
\* the flag, the notification issued outside the try block, the request.
\*   res   "busy": returned the busy result;  "threw": the notification threw;
\*         "pending": suspended on GET /api/data
\*   flag  isProcessing when the prefix is left
\*   fetch whether GET /api/data was issued
LoadDataCall_NoGuard ==
    IF NotifierThrows
    THEN [res |-> "threw", flag |-> TRUE, fetch |-> FALSE]
    ELSE [res |-> "pending", flag |-> TRUE, fetch |-> TRUE]

LoadDataCall_BusyClears ==
    IF isProcessing
    THEN [res |-> "busy", flag |-> FALSE, fetch |-> FALSE]
    ELSE IF NotifierThrows
         THEN [res |-> "threw", flag |-> TRUE, fetch |-> FALSE]
         ELSE [res |-> "pending", flag |-> TRUE, fetch |-> TRUE]

LoadDataCall ==
    IF isProcessing
    THEN [res |-> "busy", flag |-> isProcessing, fetch |-> FALSE]
    ELSE IF NotifierThrows
         THEN [res |-> "threw", flag |-> TRUE, fetch |-> FALSE]
         ELSE [res |-> "pending", flag |-> TRUE, fetch |-> TRUE]

\* The completion of loadData (lines 41-65) for one response: the result it
\* returns, the snapshot fields and the flag it leaves behind.
LoadDataSettle_StaleStamp(resp) ==
    IF resp.kind = "ok"
    THEN [res |-> "ok", data |-> resp.snap, last |-> lastUpdate, flag |-> FALSE]
    ELSE [res |-> resp.kind, data |-> processedData, last |-> lastUpdate,
          flag |-> FALSE]

LoadDataSettle_BlankOnFailure(resp) ==
    IF resp.kind = "ok"
    THEN [res |-> "ok", data |-> resp.snap, last |-> resp.snap, flag |-> FALSE]
    ELSE [res |-> resp.kind, data |-> Null, last |-> Null, flag |-> FALSE]

LoadDataSettle(resp) ==
    IF resp.kind = "ok"
    THEN [res |-> "ok", data |-> resp.snap, last |-> resp.snap, flag |-> FALSE]
    ELSE [res |-> resp.kind, data |-> processedData, last |-> lastUpdate,
          flag |-> FALSE]

\* getAisData / getAdsbData / getCoverageLayersData, data_handler.js:141-153.
getAisData(d) == IF d # Null THEN SnapshotTable[d].ais_data ELSE <<>>
getAdsbData(d) == IF d # Null THEN SnapshotTable[d].adsb_data ELSE <<>>
getCoverageLayersData(d) ==
    IF d # Null THEN SnapshotTable[d].coverage_layers ELSE <<>>

(***************************************************************************)
(* Classification of a data point, data_handler.js:166-195.  Time is       *)
(* counted in ticks of half an hour; a data point may lack its timestamp   *)
(* or its data_status property.                                            *)
(***************************************************************************)
TicksPerHour == 2

\* Hours within which a data point counts as online (line 173).
OnlineHours == 24

\* Last tick of the clock.
MaxClock == 50

Timestamps == {1, 2}
Statuses == {"normal", "warning", "error", "unknown"}
DataPoints ==
    {[data_type |-> "ais", timestamp |-> t, data_status |-> st] :
        t \in Timestamps, st \in Statuses}
    \cup {[data_type |-> "ais", timestamp |-> t] : t \in Timestamps}
    \cup {[data_type |-> "ais", data_status |-> st] : st \in Statuses}
    \cup {[data_type |-> "ais"]}

\* isDataPointOnline (lines 166-174) for the timestamp of dp at clock:
\* (now - dataTime) / (1000 * 60 * 60) < 24.
isDataPointOnline_Inclusive(dp, clock) ==
    IF "timestamp" \notin DOMAIN dp THEN FALSE
    ELSE clock - dp.timestamp <= OnlineHours * TicksPerHour

isDataPointOnline(dp, clock) ==
    IF "timestamp" \notin DOMAIN dp THEN FALSE
    ELSE clock - dp.timestamp < OnlineHours * TicksPerHour

\* The status label chosen by formatDataPointInfo (lines 182-195), the same
\* if / else if / else as in createAisPopupContent and
\* createAdsbPopupContent (map_visualization.js:243-255, 330-342).
qualityTier_DefaultNormal(dp) ==
    IF "data_status" \in DOMAIN dp /\ dp.data_status = "error" THEN "error"
    ELSE IF "data_status" \in DOMAIN dp /\ dp.data_status = "warning"
    THEN "warning"
    ELSE "normal"

qualityTier(dp) ==
    IF "data_status" \in DOMAIN dp /\ dp.data_status = "normal" THEN "normal"
    ELSE IF "data_status" \in DOMAIN dp /\ dp.data_status = "warning"
    THEN "warning"
    ELSE "error"

NoDetail == [open |-> FALSE, dp |-> [data_type |-> "none"], online |-> FALSE,
             tier |-> "none", at |-> 0]

\* formatDataPointInfo(dp) evaluated at clock (lines 179-195).
formatDataPointInfo(dp, clock) ==
    [open |-> TRUE, dp |-> dp, online |-> isDataPointOnline(dp, clock),
     tier |-> qualityTier(dp), at |-> clock]

(***************************************************************************)
(* Marker styling, map_visualization.js:69-229.  A style is named by the   *)
(* CSS colour the code writes into the icon.                               *)
(***************************************************************************)
PointCategories == {"ais", "adsb"}

\* dataPoint.data_status as JavaScript reads it: undefined when absent.
dataStatus(dp) ==
    IF "data_status" \in DOMAIN dp THEN dp.data_status ELSE "undefined"

\* The colours of an online and of an offline marker (lines 79, 153).
onlineColor(cat) == IF cat = "ais" THEN "#3498db" ELSE "#e74c3c"
offlineColor == "#95a5a6"

\* background-color of the icon (lines 73-80, 148-154).
markerColor(cat, dp, clock) ==
    IF dataStatus(dp) = "error" THEN "#ff0000"
    ELSE IF dataStatus(dp) = "warning" THEN "#ff9900"
    ELSE IF isDataPointOnline(dp, clock) THEN onlineColor(cat)
    ELSE offlineColor

\* The small dot at the icon's corner (lines 95-118, 177-202).
markerOverlay(dp) ==
    IF dataStatus(dp) = "warning" THEN "#ff9900"
    ELSE IF dataStatus(dp) = "error" THEN "#ff0000"
    ELSE "none"

\* The status named in the marker's title (lines 128-129, 214-215).
markerTitle(dp) ==
    IF dataStatus(dp) = "normal" THEN "normal"
    ELSE IF dataStatus(dp) = "warning" THEN "warning"
    ELSE "error"

NoMarker == [made |-> FALSE, cat |-> "none", dp |-> [data_type |-> "none"],
             online |-> FALSE, color |-> "none", overlay |-> "none",
             title |-> "none", popup |-> "none"]

\* createAisMarker / createAdsbMarker for data point dp at clock; online is
\* the value of isOnline (lines 70, 145), popup the status label of the
\* bound popup (lines 133-134, 218-219, 243-255, 330-342).
createMarker(cat, dp, clock) ==
    [made |-> TRUE, cat |-> cat, dp |-> dp,
     online |-> isDataPointOnline(dp, clock),
     color |-> markerColor(cat, dp, clock), overlay |-> markerOverlay(dp),
     title |-> markerTitle(dp), popup |-> qualityTier(dp)]

(***************************************************************************)
(* MapVisualization, map_visualization.js.                                 *)
(***************************************************************************)
Range(fn) == {fn[k] : k \in DOMAIN fn}
EmptyMap == [k \in {} |-> Null]

\* L.marker throws 'Invalid LatLng object' on a NaN or undefined coordinate.
ValidLatLng(rec) == {"latitude", "longitude"} \subseteq DOMAIN rec

\* Index (1-based) of the first record createAisMarker/createAdsbMarker
\* throws on, Len + 1 when none does.
FirstInvalid(recs) ==
    IF \E i \in 1..Len(recs) : ~ValidLatLng(recs[i])
    THEN CHOOSE i \in 1..Len(recs) :
            /\ ~ValidLatLng(recs[i])
            /\ \A j \in 1..(i - 1) : ValidLatLng(recs[j])
    ELSE Len(recs) + 1

\* A rendered entity: the marker or polygon object built for record idx
\* (0-based, as in the key `ais_${index}`) of snapshot snap by build gen.
Entity(cat, idx, snap, gen) ==
    [cat |-> cat, idx |-> idx, snap |-> snap, gen |-> gen]

shouldShowAis == filters["ais"]
shouldShowAdsb == filters["adsb"]
shouldShowCoverage == filters["coverage"]

\* createCoverageLayer returns null without a coordinates property and
\* below three boundary points.
createCoverageLayerOk(layer) ==
    "coordinates" \in DOMAIN layer /\ layer.coordinates >= 3

\* clearMap (lines 537-549): what stays attached once every owned entity was
\* removed from its layer group.
ClearedMarkersLayer_KeepsAttached == markersLayer

ClearedMarkersLayer == (markersLayer \ Range(aisMarkers)) \ Range(adsbMarkers)

ClearedCoverageLayers_KeepsAttached == coverageLayers

ClearedCoverageLayers == coverageLayers \ Range(coveragePolygons)

\* updateMapData (lines 484-534) for snapshot d under the current filters:
\* clearMap, then the three forEach loops; an exception of a create*Marker
\* call leaves the loop and the method at that record.
UpdateMapData(d) ==
    LET ais == getAisData(d)
        adsb == getAdsbData(d)
        cov == getCoverageLayersData(d)
        g == mapGen + 1
        aisBad == FirstInvalid(ais)
        aisThrew == shouldShowAis /\ aisBad <= Len(ais)
        aisIdx == IF shouldShowAis THEN 0..(aisBad - 2) ELSE {}
        adsbBad == FirstInvalid(adsb)
        adsbThrew == ~aisThrew /\ shouldShowAdsb /\ adsbBad <= Len(adsb)
        adsbIdx == IF ~aisThrew /\ shouldShowAdsb
                   THEN 0..(adsbBad - 2) ELSE {}
        threw == aisThrew \/ adsbThrew
        covIdx == IF ~threw /\ shouldShowCoverage
                  THEN {i \in 0..(Len(cov) - 1) :
                            createCoverageLayerOk(cov[i + 1])}
                  ELSE {}
        newAis == [i \in aisIdx |-> Entity("ais", i, d, g)]
        newAdsb == [i \in adsbIdx |-> Entity("adsb", i, d, g)]
        newCov == [i \in covIdx |-> Entity("coverage", i, d, g)]
    IN  [ais |-> newAis, adsb |-> newAdsb, cov |-> newCov,
         mLayer |-> ClearedMarkersLayer \cup Range(newAis) \cup Range(newAdsb),
         cLayer |-> ClearedCoverageLayers \cup Range(newCov),
         gen |-> g, snap |-> d, threw |-> threw]

\* The constructor's currentZoom and mapCenter (lines 10-11); the map is
\* created with them (lines 17-21).  A camera is centred on mapCenter or on
\* the box it was told to frame (center "bounds").
InitialZoom == 8
NoBox == [south |-> 0, north |-> 0, west |-> 0, east |-> 0]
InitialCamera == [center |-> "mapCenter", box |-> NoBox, zoom |-> InitialZoom]

\* No maxZoom option is given to L.map or L.tileLayer (lines 17-26), so the
\* deepest level is the tile layer's default.
TileMaxZoom == 18

\* marker.getLatLng(): the position the marker was constructed with.
getLatLng(e) ==
    LET recs == IF e.cat = "ais" THEN getAisData(e.snap)
                ELSE getAdsbData(e.snap)
    IN  <<recs[e.idx + 1].latitude, recs[e.idx + 1].longitude>>

\* L.latLngBounds(points): the smallest box enclosing the points.
latLngBounds(points) ==
    [south |-> CHOOSE a \in {q[1] : q \in points} :
                   \A q \in points : a <= q[1],
     north |-> CHOOSE a \in {q[1] : q \in points} :
                   \A q \in points : a >= q[1],
     west |-> CHOOSE o \in {q[2] : q \in points} :
                   \A q \in points : o <= q[2],
     east |-> CHOOSE o \in {q[2] : q \in points} :
                   \A q \in points : o >= q[2]]

\* map.fitBounds(box, {padding}): the view is centred on the box at the
\* deepest level that shows all of it; for a box that is a single point
\* that is the deepest level there is, for a wider one a level that
\* depends on the size of the map element (here: one above the initial).
fitBounds(box) ==
    [center |-> "bounds", box |-> box,
     zoom |-> IF box.south = box.north /\ box.west = box.east
              THEN TileMaxZoom ELSE InitialZoom - 1]

\* fitMapToBounds (lines 552-569) for owned markers ais and adsb and the
\* camera cam: the camera it leaves.
FitMapToBounds_FramesNothing(ais, adsb, cam) ==
    LET bounds == {getLatLng(e) : e \in Range(ais) \cup Range(adsb)}
    IN  IF bounds # {} THEN fitBounds(latLngBounds(bounds))
        ELSE fitBounds(NoBox)

FitMapToBounds(ais, adsb, cam) ==
    LET bounds == {getLatLng(e) : e \in Range(ais) \cup Range(adsb)}
    IN  IF bounds # {} THEN fitBounds(latLngBounds(bounds)) ELSE cam

\* The tail of updateMapData (lines 528-531), reached unless a marker
\* constructor threw.
CameraAfterUpdate(m) ==
    IF ~m.threw /\ (DOMAIN m.ais # {} \/ DOMAIN m.adsb # {})
    THEN FitMapToBounds(m.ais, m.adsb, camera)
    ELSE camera

NoMemo == [cat |-> "none", att |-> {}, phase |-> "none"]

\* The camera moves to cam; a change of level fires 'zoomend'
\* (lines 59-61).
MoveCamera(cam) ==
    /\ camera' = cam
    /\ currentZoom' = IF cam.zoom # camera.zoom THEN cam.zoom
                      ELSE currentZoom

ApplyMap(m) ==
    /\ MoveCamera(CameraAfterUpdate(m))
    /\ memo' = NoMemo
    /\ aisMarkers' = m.ais
    /\ adsbMarkers' = m.adsb
    /\ coveragePolygons' = m.cov
    /\ markersLayer' = m.mLayer
    /\ coverageLayers' = m.cLayer
    /\ mapGen' = m.gen
    /\ mapSnap' = m.snap

\* Variants of updateVisibility that touch the owned collections.
UpdateVisibility_Recreates(flt) ==
    LET fresh(m) == [k \in DOMAIN m |-> [m[k] EXCEPT !.gen = 0]]
        a == IF flt["ais"] THEN fresh(aisMarkers) ELSE aisMarkers
        b == IF flt["adsb"] THEN fresh(adsbMarkers) ELSE adsbMarkers
        c == IF flt["coverage"] THEN fresh(coveragePolygons)
             ELSE coveragePolygons
    IN  /\ aisMarkers' = a
        /\ adsbMarkers' = b
        /\ coveragePolygons' = c
        /\ markersLayer' = (IF flt["ais"] THEN Range(a) ELSE {})
                              \cup (IF flt["adsb"] THEN Range(b) ELSE {})
        /\ coverageLayers' = IF flt["coverage"] THEN Range(c) ELSE {}
        /\ UNCHANGED <<mapGen, mapSnap, camera, currentZoom>>

UpdateVisibility_ForgetsHidden(flt) ==
    /\ markersLayer' =
         LET a == IF flt["ais"] THEN markersLayer \cup Range(aisMarkers)
                  ELSE markersLayer \ Range(aisMarkers)
         IN  IF flt["adsb"] THEN a \cup Range(adsbMarkers)
             ELSE a \ Range(adsbMarkers)
    /\ coverageLayers' =
         IF flt["coverage"] THEN coverageLayers \cup Range(coveragePolygons)
         ELSE coverageLayers \ Range(coveragePolygons)
    /\ aisMarkers' = IF flt["ais"] THEN aisMarkers ELSE EmptyMap
    /\ adsbMarkers' = IF flt["adsb"] THEN adsbMarkers ELSE EmptyMap
    /\ coveragePolygons' = IF flt["coverage"] THEN coveragePolygons
                           ELSE EmptyMap
    /\ UNCHANGED <<mapGen, mapSnap, camera, currentZoom>>

\* updateVisibility (lines 591-620) under the filters flt.
UpdateVisibility(flt) ==
    /\ markersLayer' =
         LET a == IF flt["ais"] THEN markersLayer \cup Range(aisMarkers)
                  ELSE markersLayer \ Range(aisMarkers)
         IN  IF flt["adsb"] THEN a \cup Range(adsbMarkers)
             ELSE a \ Range(adsbMarkers)
    /\ coverageLayers' =
         IF flt["coverage"] THEN coverageLayers \cup Range(coveragePolygons)
         ELSE coverageLayers \ Range(coveragePolygons)
    /\ UNCHANGED <<aisMarkers, adsbMarkers, coveragePolygons, mapGen, mapSnap,
                   camera, currentZoom>>

(***************************************************************************)
(* Initial state: the scripts were evaluated (new DataHandler(), new       *)
(* MapVisualization()), the document is parsed, DOMContentLoaded has not   *)
(* fired yet.  Whether the document holds the status elements, and which   *)
(* filter boxes are checked, is not decided by these sources.              *)
(***************************************************************************)
Init ==
    /\ statusDom \in BOOLEAN
    /\ page = "loading"
    /\ processedData = Null
    /\ lastUpdate = Null
    /\ isProcessing = FALSE
    /\ flows = [f \in Flows |-> NoFlow]
    /\ last = NoFlow
    /\ reloadTimers = 0
    /\ filters \in [Categories -> BOOLEAN]
    /\ aisMarkers = EmptyMap
    /\ adsbMarkers = EmptyMap
    /\ coveragePolygons = EmptyMap
    /\ markersLayer = {}
    /\ coverageLayers = {}
    /\ mapGen = 0
    /\ mapSnap = Null
    /\ camera = InitialCamera
    /\ currentZoom = InitialZoom
    /\ memo = NoMemo
    /\ now = 0
    /\ detail = NoDetail
    /\ marker = NoMarker

(***************************************************************************)
(* Pieces shared by the handlers.                                          *)
(***************************************************************************)

\* The flow record after its n-th loadData call returned or suspended.
AfterCall(fl, c, n) ==
    LET g == [fl EXCEPT !.nLoad = @ + 1,
                        !.nFetch = @ + (IF c.fetch THEN 1 ELSE 0)]
    IN  IF n = 1 THEN [g EXCEPT !.r1 = c.res] ELSE [g EXCEPT !.r2 = c.res]

\* The flow record once GET /api/data of its n-th loadData call settled.
AfterSettle(fl, st, n) ==
    LET g == [fl EXCEPT !.snap = IF st.res = "ok" THEN st.data ELSE @]
    IN  IF n = 1 THEN [g EXCEPT !.r1 = st.res] ELSE [g EXCEPT !.r2 = st.res]

\* axios.post(.../api/data/cache/clear) is issued and awaited.
IssueClear(fl) == [fl EXCEPT !.pc = "clear", !.nClear = @ + 1,
                             !.clear = "pending"]

\* The cache-clear request settled: axios rejects on a request error only.
ClearOutcome(out) == IF out = "neterror" THEN "error" ELSE "ok"

\* setTimeout(() => location.reload(), 2000)
ArmReload(fl) == [fl EXCEPT !.timer = @ + 1]

Done(fl) == [fl EXCEPT !.pc = "done"]

\* The slot of flow f takes the record fl; a flow that returned leaves its
\* record in last.
Commit(f, fl) ==
    IF fl.pc = "done"
    THEN flows' = [flows EXCEPT ![f] = Over] /\ last' = fl
    ELSE flows' = [flows EXCEPT ![f] = fl] /\ UNCHANGED last

\* The assignments of a settled loadData (data_handler.js:42-43, 64).
StoreSettled(st) ==
    /\ processedData' = st.data
    /\ lastUpdate' = st.last
    /\ isProcessing' = st.flag

(***************************************************************************)
(* checkBackendAndLoadData, main.js:22-138 (initial load and reload-data). *)
(***************************************************************************)

\* checkBackendAndLoadData up to its first await (main.js:22-26).
StartCheck ==
    IF NotifierThrows
    THEN [NoFlow EXCEPT !.kind = "check", !.pc = "done"]
    ELSE [NoFlow EXCEPT !.kind = "check", !.pc = "health"]

\* main.js:2-19
DOMContentLoaded ==
    /\ page = "loading"
    /\ page' = "ready"
    /\ Commit(1, StartCheck)
    /\ UNCHANGED <<clsVars, statusDom, dhVars, reloadTimers, filters, mapVars>>

\* load-data-btn, Ctrl+R, Ctrl+Shift+L, reload-data-debug: loadInitialData
\* (main.js:143-145, 809-811).
ClickLoadData ==
    /\ CanTrigger
    /\ Commit(FreeSlot, StartCheck)
    /\ UNCHANGED <<clsVars, statusDom, page, dhVars, reloadTimers, filters,
                   mapVars>>

\* checkBackendHealth (data_handler.js:11-21) for a probe that ended as
\* probe: "true" or "false" is the value it returns, "threw" an exception
\* that leaves it.  axios rejects on a non-2xx answer, the timeout and a
\* connection failure; reading .status of a null payload raises a TypeError
\* inside the same try block.
checkBackendHealth_AnyAnswer(probe) ==
    IF probe \in HealthAnswers THEN "true" ELSE "false"

checkBackendHealth(probe) ==
    IF probe \in FailKinds \/ probe = "nobody" THEN "false"
    ELSE IF probe = "healthy" THEN "true" ELSE "false"

\* main.js:26-38: the health probe settled.
HealthResponse_LoadsAnyway(f, probe) ==
    /\ flows[f].kind = "check" /\ flows[f].pc = "health"
    /\ Commit(f, [flows[f] EXCEPT !.probe = probe,
                                  !.health = checkBackendHealth(probe),
                                  !.pc = "sysinfo"])
    /\ UNCHANGED <<clsVars, statusDom, page, dhVars, reloadTimers, filters,
                   mapVars>>

HealthResponse(f, probe) ==
    /\ flows[f].kind = "check" /\ flows[f].pc = "health"
    /\ LET h == checkBackendHealth(probe)
       IN  Commit(f, [flows[f] EXCEPT !.probe = probe, !.health = h,
                                      !.pc = IF h = "true" THEN "sysinfo"
                                             ELSE "done"])
    /\ UNCHANGED <<clsVars, statusDom, page, dhVars, reloadTimers, filters,
                   mapVars>>

\* main.js:113-126: the else branch entered with a failed first result.
CheckLoadFailed_ClearsMap(f, fl) ==
    /\ Commit(f, IssueClear(fl))
    /\ aisMarkers' = EmptyMap
    /\ adsbMarkers' = EmptyMap
    /\ coveragePolygons' = EmptyMap
    /\ markersLayer' = ClearedMarkersLayer
    /\ coverageLayers' = ClearedCoverageLayers
    /\ UNCHANGED <<mapGen, mapSnap, camera, currentZoom, memo>>

CheckLoadFailed(f, fl) ==
    /\ Commit(f, IssueClear(fl))
    /\ UNCHANGED mapVars

\* main.js:40-72: /api/system/info answered (its payload only feeds
\* messages), then loadData(true) is called.
SystemInfoResponse(f) ==
    /\ flows[f].kind = "check" /\ flows[f].pc = "sysinfo"
    /\ LET c == LoadDataCall
           fl == AfterCall(flows[f], c, 1)
       IN  /\ isProcessing' = c.flag
           /\ IF c.res = "pending"
              THEN Commit(f, [fl EXCEPT !.pc = "data1"]) /\ UNCHANGED mapVars
              ELSE IF c.res = "busy"
              THEN CheckLoadFailed(f, fl)
              ELSE Commit(f, Done(fl)) /\ UNCHANGED mapVars
    /\ UNCHANGED <<clsVars, statusDom, page, processedData, lastUpdate, reloadTimers,
                   filters>>

\* main.js:72-126: GET /api/data of the first loadData settled.
CheckDataResponse(f, resp) ==
    /\ flows[f].kind = "check" /\ flows[f].pc = "data1"
    /\ LET st == LoadDataSettle(resp)
           fl == AfterSettle(flows[f], st, 1)
       IN  /\ StoreSettled(st)
           /\ IF st.res = "ok"
              THEN LET m == UpdateMapData(st.data)
                   IN  /\ ApplyMap(m)
                       /\ Commit(f, [fl EXCEPT !.pc = IF m.threw THEN "done"
                                                      ELSE "stats"])
              ELSE CheckLoadFailed(f, fl)
    /\ UNCHANGED <<clsVars, statusDom, page, reloadTimers, filters>>

\* main.js:126-127: the cache-clear request settled; any answer that is not
\* a request error leads to the retry loadData(true).
CacheClearResponse(f, out) ==
    /\ flows[f].kind = "check" /\ flows[f].pc = "clear"
    /\ LET fc == [flows[f] EXCEPT !.clear = ClearOutcome(out)]
       IN  IF fc.clear = "error"
           THEN Commit(f, Done(fc)) /\ UNCHANGED isProcessing
           ELSE LET c == LoadDataCall
                    fl == AfterCall(fc, c, 2)
                IN  /\ isProcessing' = c.flag
                    /\ Commit(f, IF c.res = "pending"
                                 THEN [fl EXCEPT !.pc = "data2"]
                                 ELSE Done(fl))
    /\ UNCHANGED <<clsVars, statusDom, page, processedData, lastUpdate, reloadTimers,
                   filters, mapVars>>

\* main.js:128-136: what the flow does with the result of the retry.
RetrySettled_Recursive(fl, st) ==
    IF st.res = "ok" THEN Done(ArmReload(fl)) ELSE IssueClear(fl)

RetrySettled_ReloadsAnyway(fl, st) == Done(ArmReload(fl))

RetrySettled(fl, st) ==
    IF st.res = "ok" THEN Done(ArmReload(fl)) ELSE Done(fl)

\* main.js:127-136: GET /api/data of the retry settled.
RetryDataResponse(f, resp) ==
    /\ flows[f].kind = "check" /\ flows[f].pc = "data2"
    /\ LET st == LoadDataSettle(resp)
           fl == RetrySettled(AfterSettle(flows[f], st, 2), st)
       IN  /\ StoreSettled(st)
           /\ Commit(f, fl)
           /\ reloadTimers' = reloadTimers + (fl.timer - flows[f].timer)
    /\ UNCHANGED <<clsVars, statusDom, page, filters, mapVars>>

\* main.js:106-112: the warning checkBackendAndLoadData shows for the
\* arrays it read from the snapshot its loadData stored (lines 76-77).
PartialDataWarning(fl) ==
    /\ fl.kind = "check"
    /\ Len(getAisData(fl.snap)) = 0
    /\ Len(getAdsbData(fl.snap)) > 0

\* main.js:83-112 and 166-176: getDataStats answered; only the display of
\* the counters depends on it.  The messages about the loaded records
\* follow.
StatsResponse(f) ==
    /\ flows[f].pc = "stats"
    /\ Commit(f, Done([flows[f] EXCEPT !.warned = PartialDataWarning(flows[f])]))
    /\ UNCHANGED <<clsVars, statusDom, page, dhVars, reloadTimers, filters,
                   mapVars>>

(***************************************************************************)
(* update-data-btn click handler (main.js:148-181) around                  *)
(* DataHandler.updateData (data_handler.js:69-90).                         *)
(***************************************************************************)

\* main.js:148-155 and data_handler.js:70-73, up to the awaited rescan POST.
ClickUpdateData ==
    /\ CanTrigger
    /\ Commit(FreeSlot,
              IF NotifierThrows
              THEN [NoFlow EXCEPT !.kind = "update", !.pc = "done"]
              ELSE [NoFlow EXCEPT !.kind = "update", !.pc = "rescan",
                                  !.rescan = "pending"])
    /\ UNCHANGED <<clsVars, statusDom, page, dhVars, reloadTimers, filters,
                   mapVars>>

\* data_handler.js:73-89: what updateData does once the rescan request
\* settled: the loadData call it chains into, or none.
UpdateDataChain_AlwaysLoads(out) == LoadDataCall

UpdateDataChain_SkipsGuard(out) ==
    IF out = "ok" THEN LoadDataCall_NoGuard
    ELSE [res |-> "none", flag |-> isProcessing, fetch |-> FALSE]

UpdateDataChain(out) ==
    IF out = "ok" THEN LoadDataCall
    ELSE [res |-> "none", flag |-> isProcessing, fetch |-> FALSE]

RescanResponse(f, out) ==
    /\ flows[f].kind = "update" /\ flows[f].pc = "rescan"
    /\ LET c == UpdateDataChain(out)
           fl == [flows[f] EXCEPT !.rescan = out]
       IN  /\ isProcessing' = c.flag
           /\ Commit(f, IF c.res = "none" THEN Done(fl)
                        ELSE IF c.res = "pending"
                        THEN [AfterCall(fl, c, 1) EXCEPT !.pc = "data1"]
                        ELSE Done(AfterCall(fl, c, 1)))
    /\ UNCHANGED <<clsVars, statusDom, page, processedData, lastUpdate, reloadTimers,
                   filters, mapVars>>

\* data_handler.js:77 and main.js:157-180: GET /api/data of the chained
\* loadData settled.
UpdateDataResponse(f, resp) ==
    /\ flows[f].kind = "update" /\ flows[f].pc = "data1"
    /\ LET st == LoadDataSettle(resp)
           fl == AfterSettle(flows[f], st, 1)
       IN  /\ StoreSettled(st)
           /\ IF st.res = "ok"
              THEN LET m == UpdateMapData(st.data)
                   IN  /\ ApplyMap(m)
                       /\ Commit(f, [fl EXCEPT !.pc = IF m.threw THEN "done"
                                                      ELSE "stats"])
              ELSE Commit(f, Done(fl)) /\ UNCHANGED mapVars
    /\ UNCHANGED <<clsVars, statusDom, page, reloadTimers, filters>>

(***************************************************************************)
(* runFullAISDecode, main.js:604-643.                                      *)
(***************************************************************************)
RunFullAISDecode ==
    /\ CanTrigger
    /\ Commit(FreeSlot,
              IF NotifierThrows
              THEN [NoFlow EXCEPT !.kind = "decode", !.pc = "done"]
              ELSE IssueClear([NoFlow EXCEPT !.kind = "decode"]))
    /\ UNCHANGED <<clsVars, statusDom, page, dhVars, reloadTimers, filters,
                   mapVars>>

\* main.js:609-612
DecodeClearResponse(f, out) ==
    /\ flows[f].kind = "decode" /\ flows[f].pc = "clear"
    /\ LET fc == [flows[f] EXCEPT !.clear = ClearOutcome(out)]
       IN  IF fc.clear = "error"
           THEN Commit(f, Done(fc)) /\ UNCHANGED isProcessing
           ELSE LET c == LoadDataCall
                    fl == AfterCall(fc, c, 1)
                IN  /\ isProcessing' = c.flag
                    /\ Commit(f, IF c.res = "pending"
                                 THEN [fl EXCEPT !.pc = "data1"]
                                 ELSE Done(fl))
    /\ UNCHANGED <<clsVars, statusDom, page, processedData, lastUpdate, reloadTimers,
                   filters, mapVars>>

\* main.js:612-639
DecodeDataResponse(f, resp) ==
    /\ flows[f].kind = "decode" /\ flows[f].pc = "data1"
    /\ LET st == LoadDataSettle(resp)
           fl0 == AfterSettle(flows[f], st, 1)
           fl == IF st.res = "ok" /\ Len(getAisData(st.data)) # 0
                 THEN ArmReload(fl0) ELSE fl0
       IN  /\ StoreSettled(st)
           /\ Commit(f, Done(fl))
           /\ reloadTimers' = reloadTimers + (fl.timer - flows[f].timer)
    /\ UNCHANGED <<clsVars, statusDom, page, filters, mapVars>>

(***************************************************************************)
(* A direct call of the exported handler, window.SDFS.dataHandler          *)
(* (main.js:814-826): dataHandler.loadData(forceUpdate).  forceUpdate only *)
(* travels in the request parameters.                                      *)
(***************************************************************************)
ApiLoadData ==
    /\ CanTrigger
    /\ LET c == LoadDataCall
           fl == AfterCall([NoFlow EXCEPT !.kind = "api"], c, 1)
       IN  /\ isProcessing' = c.flag
           /\ Commit(FreeSlot, IF c.res = "pending"
                               THEN [fl EXCEPT !.pc = "data1"]
                               ELSE Done(fl))
    /\ UNCHANGED <<clsVars, statusDom, page, processedData, lastUpdate, reloadTimers,
                   filters, mapVars>>

ApiDataResponse(f, resp) ==
    /\ flows[f].kind = "api" /\ flows[f].pc = "data1"
    /\ LET st == LoadDataSettle(resp)
       IN  /\ StoreSettled(st)
           /\ Commit(f, Done(AfterSettle(flows[f], st, 1)))
    /\ UNCHANGED <<clsVars, statusDom, page, reloadTimers, filters, mapVars>>

(***************************************************************************)
(* location.reload() of an armed timer (main.js:130-132, 630-632): the     *)
(* page and every object of it start over; the browser may or may not      *)
(* restore the state of the filter boxes.                                  *)
(***************************************************************************)
ReloadTimerFires ==
    /\ reloadTimers > 0
    /\ page' = "loading"
    /\ processedData' = Null
    /\ lastUpdate' = Null
    /\ isProcessing' = FALSE
    /\ flows' = [f \in Flows |-> NoFlow]
    /\ last' = NoFlow
    /\ reloadTimers' = 0
    /\ filters' \in [Categories -> BOOLEAN]
    /\ aisMarkers' = EmptyMap
    /\ adsbMarkers' = EmptyMap
    /\ coveragePolygons' = EmptyMap
    /\ markersLayer' = {}
    /\ coverageLayers' = {}
    /\ mapGen' = 0
    /\ mapSnap' = Null
    /\ camera' = InitialCamera
    /\ currentZoom' = InitialZoom
    /\ memo' = NoMemo
    /\ detail' = NoDetail
    /\ marker' = NoMarker
    /\ UNCHANGED <<statusDom, now>>

(***************************************************************************)
(* A filter checkbox changes (main.js:230-239): updateVisibility.  memo    *)
(* keeps what was attached before a box is unticked, and tells when the    *)
(* very next change ticks the same box again.                              *)
(***************************************************************************)
Attached == markersLayer \cup coverageLayers

ToggleFilter(cat) ==
    /\ page = "ready"
    /\ filters' = [filters EXCEPT ![cat] = ~@]
    /\ UpdateVisibility(filters')
    /\ memo' = IF filters[cat]
               THEN [cat |-> cat, att |-> Attached, phase |-> "off"]
               ELSE IF memo.cat = cat /\ memo.phase = "off"
               THEN [memo EXCEPT !.phase = "restored"]
               ELSE NoMemo
    /\ UNCHANGED <<clsVars, statusDom, page, dhVars, flows, last, reloadTimers>>

(***************************************************************************)
(* reset-view-btn and window.SDFS.resetView (main.js:184-187, 817):        *)
(* resetView, map_visualization.js:572-575.                                *)
(***************************************************************************)
ResetView ==
    /\ page = "ready"
    /\ MoveCamera([center |-> "mapCenter", box |-> NoBox,
                   zoom |-> currentZoom])
    /\ UNCHANGED <<clsVars, statusDom, page, dhVars, flows, last, reloadTimers, filters,
                   aisMarkers, adsbMarkers, coveragePolygons, markersLayer,
                   coverageLayers, mapGen, mapSnap, memo>>

(***************************************************************************)
(* The user changes the zoom level (zoom control, wheel, double click):    *)
(* Leaflet moves to the level and fires 'zoomend'                          *)
(* (map_visualization.js:59-61).                                           *)
(***************************************************************************)
ZoomLevels == {InitialZoom - 1, InitialZoom, InitialZoom + 1}

UserZoom(z) ==
    /\ page = "ready"
    /\ z # camera.zoom
    /\ MoveCamera([camera EXCEPT !.zoom = z])
    /\ UNCHANGED <<clsVars, statusDom, page, dhVars, flows, last, reloadTimers, filters,
                   aisMarkers, adsbMarkers, coveragePolygons, markersLayer,
                   coverageLayers, mapGen, mapSnap, memo>>

(***************************************************************************)
(* A direct call of window.SDFS.mapVisualization.clearMap()                *)
(* (main.js:814-826, map_visualization.js:537-549).                        *)
(***************************************************************************)
\* The collections and layer groups as one record.
MapNow == [ais |-> aisMarkers, adsb |-> adsbMarkers, cov |-> coveragePolygons,
           mLayer |-> markersLayer, cLayer |-> coverageLayers]

\* clearMap applied to the collections and layer groups m.
clearMap_KeepsPolygons(m) ==
    [ais |-> EmptyMap, adsb |-> EmptyMap, cov |-> m.cov,
     mLayer |-> (m.mLayer \ Range(m.ais)) \ Range(m.adsb),
     cLayer |-> m.cLayer]

clearMap(m) ==
    [ais |-> EmptyMap, adsb |-> EmptyMap, cov |-> EmptyMap,
     mLayer |-> (m.mLayer \ Range(m.ais)) \ Range(m.adsb),
     cLayer |-> m.cLayer \ Range(m.cov)]

ApiClearMap ==
    /\ page = "ready"
    /\ LET m == clearMap(MapNow)
       IN  /\ aisMarkers' = m.ais
           /\ adsbMarkers' = m.adsb
           /\ coveragePolygons' = m.cov
           /\ markersLayer' = m.mLayer
           /\ coverageLayers' = m.cLayer
    /\ memo' = NoMemo
    /\ UNCHANGED <<clsVars, statusDom, page, dhVars, flows, last, reloadTimers,
                   filters, mapGen, mapSnap, camera, currentZoom>>

(***************************************************************************)
(* Half an hour passes.                                                    *)
(***************************************************************************)
Tick ==
    /\ now < MaxClock
    /\ now' = now + 1
    /\ UNCHANGED <<statusDom, page, dhVars, flows, last, reloadTimers, filters,
                   mapVars, detail, marker>>

(***************************************************************************)
(* The detail view of data point dp is filled: showDataPointInfo           *)
(* (map_visualization.js:460-466) calls dataHandler.formatDataPointInfo,   *)
(* which is also reachable through window.SDFS.dataHandler.                *)
(***************************************************************************)
ShowDataPointInfo(dp) ==
    /\ detail' = formatDataPointInfo(dp, now)
    /\ UNCHANGED <<statusDom, page, dhVars, flows, last, reloadTimers, filters,
                   mapVars, now, marker>>

(***************************************************************************)
(* A marker is built for data point dp: createAisMarker / createAdsbMarker *)
(* (map_visualization.js:69-229), called by updateMapData for each record  *)
(* and reachable through window.SDFS.mapVisualization.                     *)
(***************************************************************************)
CreateMarker(cat, dp) ==
    /\ marker' = createMarker(cat, dp, now)
    /\ UNCHANGED <<statusDom, page, dhVars, flows, last, reloadTimers, filters,
                   mapVars, now, detail>>

(***************************************************************************)
(* A direct call of window.SDFS.mapVisualization.fitMapToBounds()          *)
(* (main.js:814-826, map_visualization.js:552-569).                        *)
(***************************************************************************)
ApiFitMapToBounds ==
    /\ page = "ready"
    /\ MoveCamera(FitMapToBounds(aisMarkers, adsbMarkers, camera))
    /\ UNCHANGED <<clsVars, statusDom, page, dhVars, flows, last, reloadTimers, filters,
                   aisMarkers, adsbMarkers, coveragePolygons, markersLayer,
                   coverageLayers, mapGen, mapSnap, memo>>

Next ==
    \/ DOMContentLoaded
    \/ ClickLoadData
    \/ ClickUpdateData
    \/ RunFullAISDecode
    \/ ApiLoadData
    \/ \E f \in Flows, probe \in HealthProbes : HealthResponse(f, probe)
    \/ \E f \in Flows : SystemInfoResponse(f)
    \/ \E f \in Flows, resp \in DataResponses : CheckDataResponse(f, resp)
    \/ \E f \in Flows, out \in PostResponses : CacheClearResponse(f, out)
    \/ \E f \in Flows, resp \in DataResponses : RetryDataResponse(f, resp)
    \/ \E f \in Flows : StatsResponse(f)
    \/ \E f \in Flows, out \in PostResponses : RescanResponse(f, out)
    \/ \E f \in Flows, resp \in DataResponses : UpdateDataResponse(f, resp)
    \/ \E f \in Flows, out \in PostResponses : DecodeClearResponse(f, out)
    \/ \E f \in Flows, resp \in DataResponses : DecodeDataResponse(f, resp)
    \/ \E f \in Flows, resp \in DataResponses : ApiDataResponse(f, resp)
    \/ ReloadTimerFires

\* The synchronisation flows, the filter boxes staying as the page load
\* found them.
Spec == Init /\ [][Next]_vars

\* The same with the user toggling the filter boxes at any time.
UINext ==
    \/ Next
    \/ \E cat \in Categories : ToggleFilter(cat)

UISpec == Init /\ [][UINext]_vars

\* No invocation of an async handler is suspended.
Quiescent == \A f \in Flows : flows[f].pc \in {"idle", "done"}

\* The map under reload-data and update-data flows started one after the
\* other, the filter boxes, the reset-view button and direct
\* fitMapToBounds calls, on a page that holds the status elements.
MapInit == Init /\ statusDom

MapNext ==
    \/ DOMContentLoaded
    \/ Quiescent /\ ClickLoadData
    \/ Quiescent /\ ClickUpdateData
    \/ \E f \in Flows, out \in PostResponses : RescanResponse(f, out)
    \/ \E f \in Flows, resp \in DataResponses : UpdateDataResponse(f, resp)
    \/ \E f \in Flows, probe \in HealthProbes : HealthResponse(f, probe)
    \/ \E f \in Flows : SystemInfoResponse(f)
    \/ \E f \in Flows, resp \in DataResponses : CheckDataResponse(f, resp)
    \/ \E f \in Flows, out \in PostResponses : CacheClearResponse(f, out)
    \/ \E f \in Flows, resp \in DataResponses : RetryDataResponse(f, resp)
    \/ \E f \in Flows : StatsResponse(f)
    \/ ReloadTimerFires
    \/ \E cat \in Categories : ToggleFilter(cat)
    \/ ResetView
    \/ ApiFitMapToBounds

MapSpec == MapInit /\ [][MapNext]_vars

\* The camera and the map under reload-data flows started one after the
\* other, the zoom control, the reset-view button and direct fitMapToBounds
\* and clearMap calls, the filter boxes staying as the page load found them.
ViewNext ==
    \/ DOMContentLoaded
    \/ Quiescent /\ ClickLoadData
    \/ \E f \in Flows, probe \in HealthProbes : HealthResponse(f, probe)
    \/ \E f \in Flows : SystemInfoResponse(f)
    \/ \E f \in Flows, resp \in DataResponses : CheckDataResponse(f, resp)
    \/ \E f \in Flows, out \in PostResponses : CacheClearResponse(f, out)
    \/ \E f \in Flows, resp \in DataResponses : RetryDataResponse(f, resp)
    \/ \E f \in Flows : StatsResponse(f)
    \/ ReloadTimerFires
    \/ \E z \in ZoomLevels : UserZoom(z)
    \/ ResetView
    \/ ApiFitMapToBounds
    \/ ApiClearMap

ViewSpec == MapInit /\ [][ViewNext]_vars

\* The owned collections and the layer groups under everything that calls
\* updateMapData, updateVisibility or clearMap: reload-data flows started one
\* after the other, the filter boxes, and direct clearMap calls.
OwnNext ==
    \/ DOMContentLoaded
    \/ Quiescent /\ ClickLoadData
    \/ \E f \in Flows, probe \in HealthProbes : HealthResponse(f, probe)
    \/ \E f \in Flows : SystemInfoResponse(f)
    \/ \E f \in Flows, resp \in DataResponses : CheckDataResponse(f, resp)
    \/ \E f \in Flows, out \in PostResponses : CacheClearResponse(f, out)
    \/ \E f \in Flows, resp \in DataResponses : RetryDataResponse(f, resp)
    \/ \E f \in Flows : StatsResponse(f)
    \/ ReloadTimerFires
    \/ \E cat \in Categories : ToggleFilter(cat)
    \/ ApiClearMap

OwnSpec == MapInit /\ [][OwnNext]_vars

\* The classification of data points while time passes.
ClassifyNext ==
    \/ Tick
    \/ \E dp \in DataPoints : ShowDataPointInfo(dp)

ClassifySpec == MapInit /\ [][ClassifyNext]_vars

\* The styling of markers while time passes.
StyleNext ==
    \/ Tick
    \/ \E cat \in PointCategories, dp \in DataPoints : CreateMarker(cat, dp)

StyleSpec == MapInit /\ [][StyleNext]_vars

\* Every request that was issued is answered, fails or times out; an armed
\* reload timer fires.  Nothing obliges the user to trigger anything.
Responses ==
    \/ \E f \in Flows, probe \in HealthProbes : HealthResponse(f, probe)
    \/ \E f \in Flows : SystemInfoResponse(f)
    \/ \E f \in Flows, resp \in DataResponses : CheckDataResponse(f, resp)
    \/ \E f \in Flows, out \in PostResponses : CacheClearResponse(f, out)
    \/ \E f \in Flows, resp \in DataResponses : RetryDataResponse(f, resp)
    \/ \E f \in Flows : StatsResponse(f)
    \/ \E f \in Flows, out \in PostResponses : RescanResponse(f, out)
    \/ \E f \in Flows, resp \in DataResponses : UpdateDataResponse(f, resp)
    \/ \E f \in Flows, out \in PostResponses : DecodeClearResponse(f, out)
    \/ \E f \in Flows, resp \in DataResponses : DecodeDataResponse(f, resp)
    \/ \E f \in Flows, resp \in DataResponses : ApiDataResponse(f, resp)

FairSpec ==
    /\ Spec
    /\ WF_vars(DOMContentLoaded)
    /\ WF_vars(Responses)
    /\ WF_vars(ReloadTimerFires)

(***************************************************************************)
(* Vocabulary of the properties.                                           *)
(***************************************************************************)
Failed == FailKinds \cup {"busy"}

\* The record of flow f after the step: in its slot, or in last when the
\* step made it return.
AfterRec(f) ==
    IF flows'[f] # flows[f] /\ flows'[f] = Over THEN last' ELSE flows'[f]

\* The step is one of flow f (its trigger or one of its completions).
FlowStep(f) == flows'[f] # flows[f] /\ page' = page

\* Flow f called loadData in this step.
CalledLoad(f) == FlowStep(f) /\ AfterRec(f).nLoad = flows[f].nLoad + 1

\* The result of the latest loadData call of a flow record.
LatestRes(fl) == IF fl.nLoad <= 1 THEN fl.r1 ELSE fl.r2

\* GET /api/data of flow f settled in this step.
SettledLoad(f) == FlowStep(f) /\ flows[f].pc \in DataPcs


(***************************************************************************)
(* Properties of the single-flight guard of loadData.                      *)
(***************************************************************************)

\* C1: in every reachable state at most one GET /api/data snapshot fetch is
\* outstanding, whatever triggers called loadData and however their
\* completions interleave.
C1_SingleFlight == Cardinality(Outstanding) <= 1

\* A fetch is outstanding while the loadData of a second flow was turned
\* away by the guard.
C1_Witness ==
    /\ Cardinality(Outstanding) = 1
    /\ \E f \in Flows : flows[f].r1 = "busy" /\ flows[f].pc = "clear"

C3_FailureKeepsSnapshot ==
    [][\A f \in Flows :
          (SettledLoad(f) /\ LatestRes(AfterRec(f)) # "ok") =>
              /\ LatestRes(AfterRec(f)) \in FailKinds
              /\ UNCHANGED <<processedData, lastUpdate>>]_vars

\* A load failed by timeout while a snapshot was held, and it is still held.
C3_Witness ==
    /\ last.kind = "api" /\ last.r1 = "timeout"
    /\ processedData # Null /\ lastUpdate = processedData

\* C4: whenever no loadData invocation is executing, isProcessing is false,
\* whichever way the last invocation ended, an exception of the status
\* notification issued before the fetch included.
C4_FlagClearedOnEveryExit == (Outstanding = {}) => ~isProcessing

\* C5: provided every issued request is answered, fails or times out, a
\* loadData that set the in-progress flag ends and the flag is cleared, so
\* that a later loadData call is accepted.
C5_ReturnsToIdle == isProcessing ~> ~isProcessing

(***************************************************************************)
(* Properties of the retry policy of checkBackendAndLoadData.              *)
(***************************************************************************)

\* C6 as stated: in the reload-data flow a failed loadData is followed by
\* exactly one cache-clear request and then exactly one additional
\* loadData(true).
C6_RetryAlwaysLoads ==
    (last.kind = "check" /\ last.r1 \in Failed) =>
        (last.nClear = 1 /\ last.nLoad = 2)

\* C6 as amended: a failed loadData is followed by exactly one cache-clear
\* request and, when that request did not fail, by exactly one additional
\* loadData(true), none when it failed; the retry is never retried.
C6_RetryOnce ==
    /\ (last.kind = "check" /\ last.r1 \in Failed) =>
          /\ last.nClear = 1
          /\ last.nLoad = (IF last.clear = "ok" THEN 2 ELSE 1)
    /\ \A f \in Flows : flows[f].kind = "check" =>
          /\ flows[f].nClear <= 1 /\ flows[f].nLoad <= 2
          /\ flows[f].nClear = (IF flows[f].r1 \in Failed THEN 1 ELSE 0)
          /\ flows[f].pc = "data2" => flows[f].clear = "ok"

\* A reload-data flow ended whose first load failed, whose cache-clear
\* request was answered and whose retry failed too.
C6_Witness ==
    /\ last.kind = "check" /\ last.r1 \in FailKinds /\ last.clear = "ok"
    /\ last.r2 \in FailKinds /\ last.nLoad = 2 /\ last.nClear = 1

\* C7: when the automatic retry fails as well the interaction is over: the
\* flow has returned, it issued one cache-clear request and two loadData
\* calls in all and armed no page reload.
C7_SecondFailureTerminal ==
    /\ (last.kind = "check" /\ last.r2 \in Failed) =>
          /\ last.pc = "done"
          /\ last.nClear = 1 /\ last.nLoad = 2 /\ last.nFetch <= 2
          /\ last.timer = 0
    /\ \A f \in Flows : flows[f].kind = "check" =>
          /\ flows[f].r2 \notin Failed
          /\ flows[f].timer = 0

\* Both fetches of a reload-data flow failed, nothing of it is pending and
\* no reload is armed.
C7_Witness ==
    /\ last.kind = "check" /\ last.r1 \in FailKinds /\ last.r2 \in FailKinds
    /\ last.nFetch = 2
    /\ Quiescent /\ reloadTimers = 0

\* C8: first fetch answered success:false, fetch of the automatic retry
\* answered success:true: once the interaction is over the held snapshot
\* and the entities on the map are those of the retry, and one cache-clear
\* request was made.
C8_RetrySnapshotShown ==
    (/\ last.kind = "check" /\ last.r1 = "rejected" /\ last.r2 = "ok"
     /\ Quiescent) =>
        /\ processedData = last.snap
        /\ mapSnap = last.snap
        /\ last.nClear = 1

\* C9: a failed fetch leaves the owned collections and the attached
\* entities untouched, and so does everything the flow does after it:
\* the map a prior snapshot was rendered to is neither cleared nor rebuilt.
C9_FailureKeepsMap ==
    [][\A f \in Flows :
          ((SettledLoad(f) /\ LatestRes(AfterRec(f)) # "ok")
             \/ (FlowStep(f) /\ flows[f].r1 \in Failed))
          => UNCHANGED mapVars]_vars

\* A reload-data fetch timed out while the snapshot held is the one
\* rendered, markers included.
C9_Witness ==
    /\ \E f \in Flows : flows[f].kind = "check" /\ flows[f].r1 = "timeout"
    /\ processedData # Null /\ mapSnap = processedData
    /\ DOMAIN aisMarkers # {} /\ markersLayer # {}

(***************************************************************************)
(* updateData.                                                             *)
(***************************************************************************)

\* C10: updateData issues the rescan request before any loadData; a rescan
\* that succeeded is followed by one loadData(true) whose result decides
\* the outcome; a rescan that failed ends the update with no loadData
\* call and leaves processedData, lastUpdate and isProcessing alone.
C10_RescanThenLoad ==
    [][\A f \in Flows :
          /\ (flows'[f].pc = "rescan") =>
                (flows'[f].nLoad = 0 /\ flows'[f].nFetch = 0)
          /\ (FlowStep(f) /\ flows[f].pc = "rescan") =>
                IF AfterRec(f).rescan = "ok"
                THEN /\ AfterRec(f).nLoad = 1
                     /\ AfterRec(f).r1 \in {"busy", "pending"}
                     /\ AfterRec(f).r1 = "pending" <=> ~isProcessing
                ELSE /\ AfterRec(f).nLoad = 0
                     /\ AfterRec(f).nFetch = 0
                     /\ AfterRec(f).pc = "done"
                     /\ UNCHANGED dhVars
          /\ (FlowStep(f) /\ flows[f].kind = "update"
                          /\ flows[f].pc = "data1") =>
                IF AfterRec(f).r1 = "ok"
                THEN mapSnap' = processedData' /\ mapGen' = mapGen + 1
                ELSE UNCHANGED mapVars /\ AfterRec(f).pc = "done"]_vars

\* An update ended on a failed rescan without any loadData call, a snapshot
\* being held.
C10_Witness ==
    /\ last.kind = "update" /\ last.rescan \in {"rejected", "neterror"}
    /\ last.nLoad = 0
    /\ processedData # Null

(***************************************************************************)
(* checkBackendHealth.                                                     *)
(***************************************************************************)

\* The records of the flows in progress and of the flow that returned last.
Recs == Range(flows) \cup {last}

\* C11: checkBackendHealth never throws; it returns true only when the probe
\* was answered with a payload whose status is 'healthy', and false on a
\* timeout, a connection failure, a rejected request and any other payload.
C11_HealthyOnlyWhenHealthy ==
    \A fl \in Recs :
        fl.probe # "none" =>
            /\ fl.health \in {"true", "false"}
            /\ (fl.health = "true") <=> (fl.probe = "healthy")
            /\ (fl.health = "false") => (fl.pc = "done" /\ fl.nLoad = 0)

\* A probe answered with a payload that is not 'healthy' made
\* checkBackendHealth return false and the load stop there.
C11_Witness ==
    /\ last.kind = "check" /\ last.probe = "degraded"
    /\ last.health = "false" /\ last.nFetch = 0

(***************************************************************************)
(* The map: what a rebuild renders.                                        *)
(***************************************************************************)

\* Keys (0-based indices) of the records of recs with valid coordinates, and
\* of the regions of cov with a boundary of three points or more.
ValidRecords(recs) == {i \in 0..(Len(recs) - 1) : ValidLatLng(recs[i + 1])}
ValidRegions(cov) ==
    {i \in 0..(Len(cov) - 1) : createCoverageLayerOk(cov[i + 1])}

\* Keys a faithful rendering of category cat of snapshot d owns under the
\* filters flt.
Expected(cat, d, flt) ==
    IF ~flt[cat] THEN {}
    ELSE IF cat = "ais" THEN ValidRecords(getAisData(d))
    ELSE IF cat = "adsb" THEN ValidRecords(getAdsbData(d))
    ELSE ValidRegions(getCoverageLayersData(d))

Owned == Range(aisMarkers) \cup Range(adsbMarkers) \cup Range(coveragePolygons)

\* The step ran updateMapData.
Rebuilt == mapGen' = mapGen + 1

\* Snapshot d holds a record without valid coordinates.
HasInvalidRecord(d) ==
    \/ ValidRecords(getAisData(d)) # 0..(Len(getAisData(d)) - 1)
    \/ ValidRecords(getAdsbData(d)) # 0..(Len(getAdsbData(d)) - 1)

\* C12: right after updateMapData the number of owned rendered entities is
\* the number of valid records whose category filter is ticked plus the
\* number of valid regions when the coverage filter is ticked.
C12_OwnedCountIsValidVisible ==
    [][Rebuilt =>
         Cardinality(DOMAIN aisMarkers') + Cardinality(DOMAIN adsbMarkers')
           + Cardinality(DOMAIN coveragePolygons')
         = Cardinality(Expected("ais", mapSnap', filters))
           + Cardinality(Expected("adsb", mapSnap', filters))
           + Cardinality(Expected("coverage", mapSnap', filters))]_vars

\* C13: updateMapData clears and rebuilds: once it ran, no entity that was
\* owned or attached before the call is owned or attached any more, and
\* every owned entity was constructed by this call from the snapshot it was
\* given.
C13_ClearThenRebuild ==
    [][Rebuilt =>
         /\ (Owned' \cup Attached') \cap (Owned \cup Attached) = {}
         /\ \A e \in Owned' : e.snap = mapSnap' /\ e.gen = mapGen'
         /\ Attached' \subseteq Owned']_vars

\* A second updateMapData replaced a map that held entities by entities of
\* its own.
C13_Witness ==
    /\ mapGen >= 2
    /\ Owned # {} /\ Attached = Owned
    /\ \A e \in Owned : e.gen = mapGen /\ e.snap = mapSnap

\* Each category owns exactly the keys a faithful rendering of the snapshot
\* just passed to updateMapData owns.
RenderedAsExpected ==
    /\ DOMAIN aisMarkers' = Expected("ais", mapSnap', filters)
    /\ DOMAIN adsbMarkers' = Expected("adsb", mapSnap', filters)
    /\ DOMAIN coveragePolygons' = Expected("coverage", mapSnap', filters)

\* C14: a record whose coordinates are missing or not finite is skipped
\* without aborting the rebuild: every valid record and region of the
\* snapshot whose filter is ticked is rendered all the same, and the load
\* goes on as after any successful fetch instead of failing as a whole.
C14_InvalidRecordSkipped ==
    [][(Rebuilt /\ HasInvalidRecord(mapSnap')) =>
         /\ RenderedAsExpected
         /\ \A f \in Flows : FlowStep(f) => AfterRec(f).pc = "stats"]_vars

\* Snapshot d holds a region createCoverageLayer rejects.
HasShortRegion(d) ==
    ValidRegions(getCoverageLayersData(d))
        # 0..(Len(getCoverageLayersData(d)) - 1)

\* C15: a coverage region with fewer than three boundary points, or with no
\* boundary, is never owned nor attached, while every other region and
\* every record of the same snapshot is rendered as usual.
C15_ShortRegionDropped ==
    [][(Rebuilt /\ HasShortRegion(mapSnap')) =>
         /\ \A e \in Owned' \cup Attached' :
               e.cat = "coverage" =>
                  e.idx \in ValidRegions(getCoverageLayersData(e.snap))
         /\ RenderedAsExpected]_vars

(***************************************************************************)
(* The map: filters.                                                       *)
(***************************************************************************)

\* C16: for every category, unticking its filter and ticking it again
\* (updateVisibility after each change) brings back exactly the set of
\* attached entities there was before the filter was unticked.
C16_ToggleRoundTrip == memo.phase = "restored" => Attached = memo.att

\* A filter was unticked while entities of its category were attached, then
\* ticked again, and those entities are attached again.
C16_Witness ==
    /\ memo.phase = "restored"
    /\ \E e \in memo.att : e.cat = memo.cat
    /\ Attached = memo.att

\* C17: entities are created and destroyed by updateMapData (and the
\* clearMap it starts with) only: every other step of the page, be it
\* updateVisibility, fitMapToBounds, resetView, or a step of loadData,
\* updateData or checkBackendHealth, leaves the three owned collections
\* (keys and entity objects) as they are.
C17_OnlyRebuildChangesOwned ==
    [][(~Rebuilt /\ page' # "loading") =>
         UNCHANGED <<aisMarkers, adsbMarkers, coveragePolygons>>]_vars

\* An owned entity is detached: updateVisibility acted on it and it stayed
\* in its collection.
C17_Witness ==
    /\ Owned \ Attached # {}
    /\ \E cat \in Categories : ~filters[cat]
    /\ mapGen > 0

\* Keys of the attached entities of category cat.
AttachedKeys(cat) == {e.idx : e \in {x \in Attached : x.cat = cat}}

\* C18: after any sequence of updateMapData and updateVisibility calls the
\* map agrees with the snapshot applied last and with the filters as they
\* are now: for each category the attached entities are exactly the valid
\* records or regions of that snapshot when its filter is ticked, and none
\* when it is not.
C18_MapAgreesWithFilters ==
    mapGen > 0 =>
        /\ \A e \in Attached : e.snap = mapSnap
        /\ \A cat \in Categories :
              AttachedKeys(cat) = Expected(cat, mapSnap, filters)

(***************************************************************************)
(* The map: framing.                                                       *)
(***************************************************************************)

\* Positions of the point entities of the set es.
Positions(es) == {getLatLng(e) : e \in {x \in es : x.cat # "coverage"}}

\* The step commanded the view to frame a box.
Framed == camera' # camera /\ camera'.center = "bounds"

\* C19: while no point entity is owned the bounds are empty and
\* fitMapToBounds does nothing: whether called by updateMapData or
\* directly, no view command is issued and the camera stays where it is
\* (only resetView moves it then).
C19_NoFitWithoutPoints ==
    [][(DOMAIN aisMarkers' = {} /\ DOMAIN adsbMarkers' = {}
           /\ page' # "loading") =>
         /\ ~Framed
         /\ \/ camera' = camera /\ currentZoom' = currentZoom
            \/ camera' = [center |-> "mapCenter", box |-> NoBox,
                          zoom |-> currentZoom]]_vars

\* updateMapData ran and left coverage polygons but no point entity: the
\* camera is where the page load put it.
C19_Witness ==
    /\ mapGen > 0
    /\ DOMAIN aisMarkers = {} /\ DOMAIN adsbMarkers = {}
    /\ DOMAIN coveragePolygons # {}
    /\ camera = InitialCamera

\* C20: the box fitMapToBounds frames is the smallest one enclosing the
\* positions of the point entities attached at that moment, and of nothing
\* else: coverage polygons never count, and neither does a point entity a
\* filter toggle detached.
C20_FramesAttachedPoints ==
    [][Framed =>
         /\ Positions(Attached') # {}
         /\ camera'.box = latLngBounds(Positions(Attached'))]_vars

(***************************************************************************)
(* The camera.                                                             *)
(***************************************************************************)

\* C21: whatever user zooms, fits and snapshot updates came before,
\* resetView puts the camera at the centre and the zoom level the
\* constructor captured (mapCenter, level 8).
C21_ResetRestoresInitialView ==
    [][ResetView => camera' = InitialCamera]_vars

(***************************************************************************)
(* Classification.                                                         *)
(***************************************************************************)

\* Ticks between the timestamp of the data point shown and the moment the
\* detail view was filled.
Age == detail.at - detail.dp.timestamp

Day == OnlineHours * TicksPerHour

\* C22: isDataPointOnline is true iff the timestamp is less than 24 hours
\* old: false at exactly 24 hours and beyond, false without a timestamp.
C22_OnlineWithin24h ==
    detail.open =>
        IF "timestamp" \notin DOMAIN detail.dp THEN ~detail.online
        ELSE /\ (Age < Day) => detail.online
             /\ (Age = Day) => ~detail.online
             /\ (Age > Day) => ~detail.online

\* A data point was classified exactly 24 hours after its timestamp and
\* found offline.
C22_Witness ==
    /\ detail.open /\ "timestamp" \in DOMAIN detail.dp
    /\ Age = Day /\ ~detail.online

\* C23: the quality classification is normal iff data_status is 'normal',
\* warning iff it is 'warning', and error for every other value, a missing
\* and an unrecognized status included.
C23_QualityTier ==
    detail.open =>
        LET has == "data_status" \in DOMAIN detail.dp
        IN  /\ (detail.tier = "normal") <=>
                  (has /\ detail.dp.data_status = "normal")
            /\ (detail.tier = "warning") <=>
                  (has /\ detail.dp.data_status = "warning")
            /\ (detail.tier = "error") <=>
                  (~has \/ detail.dp.data_status \notin {"normal", "warning"})

\* A data point with an unrecognized status was classified as error.
C23_Witness ==
    /\ detail.open /\ "data_status" \in DOMAIN detail.dp
    /\ detail.dp.data_status = "unknown" /\ detail.tier = "error"

(***************************************************************************)
(* The load pipeline.                                                      *)
(***************************************************************************)

\* C24: when checkBackendHealth reports the backend unreachable the load
\* stops there: that interaction issues no snapshot fetch, no rescan and no
\* cache-clear request, and the held snapshot and the map stay as they are.
C24_UnhealthyHalts ==
    [][\A f \in Flows :
          (FlowStep(f) /\ flows[f].pc = "health"
                       /\ AfterRec(f).health = "false") =>
             /\ AfterRec(f).pc = "done"
             /\ AfterRec(f).nLoad = 0 /\ AfterRec(f).nFetch = 0
             /\ AfterRec(f).nClear = 0 /\ AfterRec(f).rescan = "none"
             /\ AfterRec(f).timer = 0
             /\ UNCHANGED <<dhVars, mapVars, reloadTimers>>]_vars

\* A reload-data whose health probe could not connect or timed out ended
\* without any request, the snapshot loaded before still held and shown.
C24_Witness ==
    /\ last.kind = "check" /\ last.probe \in {"timeout", "neterror"}
    /\ last.health = "false" /\ last.nFetch = 0 /\ last.nClear = 0
    /\ processedData # Null /\ mapSnap = processedData /\ Owned # {}

\* C25: processedData and lastUpdate change only when a loadData settles
\* successfully, both taken from that one response; every other step
\* (health probe, rescan, statistics, the getters, every map operation)
\* leaves them as they are.  A page reload starts a new DataHandler.
C25_SnapshotReplacedOnlyByLoad ==
    [][((processedData' # processedData \/ lastUpdate' # lastUpdate)
           /\ page' # "loading") =>
         /\ \E f \in Flows :
               /\ SettledLoad(f)
               /\ LatestRes(AfterRec(f)) = "ok"
               /\ processedData' = AfterRec(f).snap
         /\ lastUpdate' = processedData']_vars

\* A snapshot rendered by the initial load was replaced by the one a
\* successful update fetched.
C25_Witness ==
    /\ last.kind = "update" /\ last.r1 = "ok"
    /\ processedData = last.snap /\ lastUpdate = processedData
    /\ mapGen >= 2

\* The handlers the user starts a load with.
TriggerKinds == {"check", "update", "decode"}

\* C26: whichever trigger started it (initial load, reload-data, update or
\* full decode), a load whose fetch failed (timeout, network error,
\* success:false) is retried automatically, exactly once: the failure is
\* followed by a cache-clear request and one more loadData, and a failure
\* of that one by nothing.
C26_EveryFailedLoadRetried ==
    [][\A f \in Flows :
          (SettledLoad(f) /\ flows[f].kind \in TriggerKinds) =>
             IF flows[f].pc = "data1"
             THEN AfterRec(f).r1 \in FailKinds =>
                     /\ AfterRec(f).pc = "clear"
                     /\ AfterRec(f).nClear = flows[f].nClear + 1
             ELSE /\ AfterRec(f).pc = "done"
                  /\ AfterRec(f).nClear = flows[f].nClear
                  /\ AfterRec(f).nLoad = 2]_vars

(***************************************************************************)
(* clearMap.                                                               *)
(***************************************************************************)

\* C27: clearMap releases every owned entity and is idempotent: after a
\* call the three collections are empty and nothing that was owned is
\* attached, and calling it again at once changes nothing.
C27_ClearMapIdempotent ==
    [][ApiClearMap =>
         /\ DOMAIN aisMarkers' = {} /\ DOMAIN adsbMarkers' = {}
         /\ DOMAIN coveragePolygons' = {}
         /\ Attached' \cap Owned = {}
         /\ clearMap(MapNow') = MapNow']_vars

\* clearMap emptied a map on which the latest snapshot had been rendered
\* with entities of a category whose filter is still ticked.
C27_Witness ==
    /\ mapGen > 0 /\ Owned = {} /\ Attached = {}
    /\ \E cat \in Categories : Expected(cat, mapSnap, filters) # {}

(***************************************************************************)
(* Triggers during an outstanding load.                                    *)
(***************************************************************************)

\* C28: a reload-data whose loadData call met an outstanding load is
\* rejected with the busy result and ends there: it issues no snapshot
\* fetch and no cache-clear request and arms no page reload, then or
\* later; the outstanding load is left alone.
C28_BusyReloadEndsThere ==
    \A fl \in Recs :
        (fl.kind = "check" /\ fl.r1 = "busy") =>
            /\ fl.pc = "done"
            /\ fl.nLoad = 1 /\ fl.nFetch = 0
            /\ fl.nClear = 0 /\ fl.timer = 0

\* The step is the continuation of update flow f after its rescan request
\* was answered with success.
RescanSucceeded(f) ==
    /\ FlowStep(f) /\ flows[f].kind = "update" /\ flows[f].pc = "rescan"
    /\ AfterRec(f).rescan = "ok"

\* C29 as stated: under any interleaving, an update whose rescan succeeded
\* goes on to fetch a snapshot after the rescan completed and completes
\* with that snapshot.
C29_UpdateFetchesAfterRescan ==
    [][\A f \in Flows :
          RescanSucceeded(f) =>
             /\ AfterRec(f).pc = "data1"
             /\ AfterRec(f).nFetch = 1]_vars

\* C29 as amended: an update whose rescan succeeded calls loadData(true)
\* once.  If a load is outstanding at that moment the update ends with the
\* busy failure, without any fetch and without touching the held snapshot
\* or the map; otherwise it issues its own fetch, after the rescan, and
\* when that fetch succeeds its snapshot is the one stored and rendered.
\* The update never reports success for, nor renders, a snapshot fetched
\* before its rescan completed.
C29_UpdateNeverShowsPreRescan ==
    [][\A f \in Flows :
          /\ RescanSucceeded(f) =>
                IF isProcessing
                THEN /\ AfterRec(f).r1 = "busy" /\ AfterRec(f).pc = "done"
                     /\ AfterRec(f).nFetch = 0
                     /\ UNCHANGED <<dhVars, mapVars>>
                ELSE /\ AfterRec(f).r1 = "pending" /\ AfterRec(f).pc = "data1"
                     /\ flows[f].nFetch = 0 /\ AfterRec(f).nFetch = 1
          /\ (FlowStep(f) /\ flows[f].kind = "update"
                          /\ flows[f].pc = "data1"
                          /\ AfterRec(f).r1 = "ok") =>
                /\ AfterRec(f).nFetch = 1
                /\ processedData' = AfterRec(f).snap
                /\ Rebuilt /\ mapSnap' = AfterRec(f).snap]_vars

\* An update whose rescan succeeded ended with the busy result while the
\* load that was outstanding is still waiting for its answer.
C29_Witness ==
    /\ last.kind = "update" /\ last.rescan = "ok" /\ last.r1 = "busy"
    /\ last.nFetch = 0
    /\ \E f \in Flows : flows[f].pc \in DataPcs

(***************************************************************************)
(* The map follows the held snapshot.                                      *)
(***************************************************************************)

\* C30: every successful loadData of an interaction is followed, before the
\* interaction ends, by updateMapData with the snapshot it stored, unless a
\* page reload is armed instead; so with nothing in progress the map was
\* built from the snapshot DataHandler holds.
C30_SuccessfulLoadIsRendered ==
    [][\A f \in Flows :
          (SettledLoad(f) /\ flows[f].kind \in TriggerKinds
                          /\ LatestRes(AfterRec(f)) = "ok") =>
             \/ Rebuilt /\ mapSnap' = processedData'
             \/ AfterRec(f).timer = flows[f].timer + 1]_vars

(***************************************************************************)
(* Marker styling.                                                         *)
(***************************************************************************)
\* The colour the online status of the marker's record alone would give.
BaseColor(m) == IF m.online THEN onlineColor(m.cat) ELSE offlineColor

\* C31: the base colour of every marker is determined by the online status
\* of its record alone (two records with the same online status get the same
\* base colour whatever their quality status); the quality tier shows in the
\* overlay indicator only.
C31_BaseColorByOnlineAlone == marker.made => marker.color = BaseColor(marker)

\* The quality tier a colour of the icon stands for.
TierOfColor(c) ==
    IF c = "#ff0000" THEN "error"
    ELSE IF c = "#ff9900" THEN "warning"
    ELSE "normal"

\* A status that is neither of the three recognised ones, or is absent.
Unrecognized(dp) == dataStatus(dp) \notin {"normal", "warning", "error"}

\* The tiers shown for the record of marker m: by the icon's colour, by its
\* overlay indicator, by the title, by the popup, and by the detail view a
\* click on the marker fills (lines 137-139, 222-224).
TiersShown(m) ==
    {TierOfColor(m.color), TierOfColor(m.overlay), m.title, m.popup,
     formatDataPointInfo(m.dp, now).tier}

\* C32: every place that classifies the data_status of a record shows the
\* same tier: the marker's colour, its overlay indicator, its title, its
\* popup and the detail view; for a missing or unrecognised status that tier
\* is error, never the styling of a normal record.
C32_AllPlacesAgreeOnTier ==
    marker.made =>
        /\ Cardinality(TiersShown(marker)) = 1
        /\ Unrecognized(marker.dp) => TiersShown(marker) = {"error"}

(***************************************************************************)
(* Messages about the loaded records.                                      *)
(***************************************************************************)
\* Snapshot d has records of one point category and none of the other.
Partial(d) ==
    d # Null /\ (Len(getAisData(d)) = 0) # (Len(getAdsbData(d)) = 0)

\* C33: when loadData of checkBackendAndLoadData stores a snapshot in which
\* one point category has no record while the other has some (in either
\* direction), the snapshot is applied to the map in that step, and the
\* handler shows the partial-data warning before it returns.
C33_PartialDataWarned ==
    [][\A f \in Flows :
          /\ (SettledLoad(f) /\ flows[f].kind = "check"
                             /\ flows[f].pc = "data1"
                             /\ AfterRec(f).r1 = "ok"
                             /\ Partial(AfterRec(f).snap)) =>
                (Rebuilt /\ mapSnap' = AfterRec(f).snap)
          /\ (FlowStep(f) /\ flows[f].kind = "check"
                          /\ flows[f].pc = "stats"
                          /\ Partial(flows[f].snap)) =>
                AfterRec(f).warned]_vars

(***************************************************************************)
(* Keys of the rendered entities.                                          *)
(***************************************************************************)
\* Map m (key index -> entity) holds, under exactly the keys idxs, the
\* entity this rebuild constructed from the record of that index.
KeyedBy(m, cat, idxs) ==
    /\ DOMAIN m = idxs
    /\ \A i \in idxs : m[i] = Entity(cat, i, mapSnap', mapGen')

\* C34: after updateMapData the keys are positional within the snapshot
\* applied: a point category whose filter is ticked owns one entity per index
\* of its record sequence, entity i built from record i; the regions own the
\* keys of exactly the valid regions, skipped regions leaving gaps; an
\* unticked category owns nothing, so no key of an earlier snapshot survives.
C34_KeysPositional ==
    [][Rebuilt =>
         /\ KeyedBy(aisMarkers', "ais",
                    IF filters["ais"]
                    THEN 0..(Len(getAisData(mapSnap')) - 1) ELSE {})
         /\ KeyedBy(adsbMarkers', "adsb",
                    IF filters["adsb"]
                    THEN 0..(Len(getAdsbData(mapSnap')) - 1) ELSE {})
         /\ KeyedBy(coveragePolygons', "coverage",
                    IF filters["coverage"]
                    THEN ValidRegions(getCoverageLayersData(mapSnap'))
                    ELSE {})]_vars

(***************************************************************************)
(* Ownership of what is on the map.                                        *)
(***************************************************************************)
\* C35: no orphan entities: whatever sequence of updateMapData (a rebuild
\* aborted by an exception included), updateVisibility and clearMap ran,
\* every marker or polygon attached to the view is held in one of the owned
\* collections, so the next clearMap detaches everything on the map.
C35_NoOrphans ==
    /\ Attached \subseteq Owned
    /\ clearMap(MapNow).mLayer = {}
    /\ clearMap(MapNow).cLayer = {}

\* A second or later rebuild was aborted at the record without latitude of
\* its snapshot, after the first AIS marker was attached.
C35_Witness ==
    /\ mapGen >= 2
    /\ HasInvalidRecord(mapSnap)
    /\ DOMAIN aisMarkers = {0} /\ DOMAIN adsbMarkers = {}
    /\ Attached = Owned

====
